---- MODULE Spec2Model ----
(***************************************************************************)
(* Model of supervised_classification.ipynb: the loader read_data, the     *)
(* label summarizer outcome_values, the training pipeline classify, the    *)
(* evaluator evaluate and the driver loop over datasets x classifiers.     *)
(*                                                                         *)
(* A file is a sequence of lines of text fields.  A table (DataFrame) is a *)
(* record of column labels, row index and rows of cells.  A cell is a      *)
(* number, a string or the missing marker NaN.  Integer column labels of   *)
(* header-less files are written as their decimal strings.  Floating point *)
(* values produced by the imputer and by the metrics are exact fractions   *)
(* <<numerator, denominator>> in lowest terms.                             *)
(***************************************************************************)
EXTENDS Integers, Sequences, FiniteSets, TLC

VARIABLES pc, di, ci, data, labels, cls, res, evaluation, fits, trace, log

vars == <<pc, di, ci, data, labels, cls, res, evaluation, fits, trace, log>>

(***************************************************************************)
(* Bounds                                                                  *)
(***************************************************************************)
\* largest number of lines of a source file
MaxRows == 3
\* largest length of the gold / predicted sequences handed to evaluate
\* when evaluate is explored on its own
MaxEval == 3

(***************************************************************************)
(* Cells and generic helpers                                               *)
(***************************************************************************)
Num(i) == [kind |-> "num", num |-> i, str |-> ""]
Str(s) == [kind |-> "str", num |-> 0, str |-> s]
NaN == [kind |-> "nan", num |-> 0, str |-> ""]

IsNa(c) == c.kind = "nan"

SeqToSet(s) == {s[i] : i \in DOMAIN s}

RECURSIVE SumSeq(_)
SumSeq(s) == IF s = <<>> THEN 0 ELSE Head(s) + SumSeq(Tail(s))

RECURSIVE Flatten(_)
Flatten(ss) == IF ss = <<>> THEN <<>> ELSE Head(ss) \o Flatten(Tail(ss))

\* the positions of s, in order, whose element satisfies Test
SelectPos(s, Test(_)) ==
  LET F[i \in 0..Len(s)] ==
        IF i = 0 THEN <<>>
        ELSE IF Test(s[i]) THEN Append(F[i-1], i) ELSE F[i-1]
  IN F[Len(s)]

Take(s, positions) == [k \in 1..Len(positions) |-> s[positions[k]]]

Count(s, v) == Cardinality({i \in DOMAIN s : s[i] = v})

RECURSIVE GCD(_, _)
GCD(a, b) == IF b = 0 THEN a ELSE GCD(b, a % b)

\* the float n/d, d > 0, n >= 0
Frac(n, d) == LET g == GCD(n, d) IN <<n \div g, d \div g>>

\* all sequences over S of length lo..hi
SeqsOf(S, lo, hi) == UNION {[1..n -> S] : n \in lo..hi}

(***************************************************************************)
(* pandas: tables                                                          *)
(***************************************************************************)
\* labels 0, 1, 2, ... that pandas gives the columns of a header-less file
IntLabel == <<"0", "1", "2", "3", "4", "5", "6", "7", "8", "9">>

RangeIndex(n) == [i \in 1..n |-> i - 1]

NRows(t) == Len(t.rows)
NCols(t) == Len(t.columns)

\* text fields that to_numeric / read_csv parse as numbers
ParseNum == [s \in {"0", "1", "2", "3", "8"} |->
               CASE s = "0" -> 0 [] s = "1" -> 1 [] s = "2" -> 2
                 [] s = "3" -> 3 [] s = "8" -> 8]

IsNumericText(s) == s \in DOMAIN ParseNum

\* text fields read_csv turns into the missing marker by default
NAStrings == {"", "NA", "NaN"}

\* pd.read_csv: a column whose fields are all numbers (or NA strings) is
\* parsed to numbers, any other column keeps its text
read_csv(file, header) ==
  LET body == IF header THEN Tail(file) ELSE file
      first == file[1]
      ncol == Len(first)
      numeric(j) == \A i \in DOMAIN body :
                       IsNumericText(body[i][j]) \/ body[i][j] \in NAStrings
      cell(i, j) == IF body[i][j] \in NAStrings THEN NaN
                    ELSE IF numeric(j) THEN Num(ParseNum[body[i][j]])
                    ELSE Str(body[i][j])
  IN [columns |-> IF header THEN first ELSE [j \in 1..ncol |-> IntLabel[j]],
      index |-> RangeIndex(Len(body)),
      rows |-> [i \in 1..Len(body) |-> [j \in 1..ncol |-> cell(i, j)]]]

\* DataFrame.append(other, ignore_index=True)
append(t, other) ==
  [columns |-> t.columns,
   index |-> RangeIndex(NRows(t) + NRows(other)),
   rows |-> t.rows \o other.rows]

\* the text before the first '.' of the label texts of allhyper
SplitDot(s) ==
  CASE s = "negative.|1" -> "negative"
    [] s = "goitre.|2" -> "goitre"
    [] s = "T3 toxic.|3" -> "T3 toxic"
    [] OTHER -> s

\* Series.str.split('.').str[0]: an element that is no string becomes NaN
StrSplitFirst(c) == IF c.kind = "str" THEN Str(SplitDot(c.str)) ELSE NaN

\* apply f to every cell of column position j
MapCol(t, j, f(_)) ==
  [t EXCEPT !.rows = [i \in 1..NRows(t) |->
                        [k \in 1..NCols(t) |->
                           IF k = j THEN f(t.rows[i][k]) ELSE t.rows[i][k]]]]

MapCells(t, f(_)) ==
  [t EXCEPT !.rows = [i \in 1..NRows(t) |->
                        [k \in 1..NCols(t) |-> f(t.rows[i][k])]]]

\* DataFrame.drop(names, axis=1)
drop(t, names) ==
  LET keep == SelectPos(t.columns, LAMBDA c : c \notin names)
  IN [columns |-> Take(t.columns, keep),
      index |-> t.index,
      rows |-> [i \in 1..NRows(t) |-> Take(t.rows[i], keep)]]

\* DataFrame.iloc[:, lo:hi] with 1-based inclusive column positions
iloc(t, lo, hi) ==
  LET keep == [k \in 1..(hi - lo + 1) |-> lo + k - 1]
  IN [columns |-> Take(t.columns, keep),
      index |-> t.index,
      rows |-> [i \in 1..NRows(t) |-> Take(t.rows[i], keep)]]

\* position of the column labelled name
ColPos(t, name) == CHOOSE j \in 1..NCols(t) : t.columns[j] = name

\* the cells of one column, in row order
ColVals(t, j) == [i \in 1..NRows(t) |-> t.rows[i][j]]

\* pd.to_numeric(errors='coerce') on one cell
to_numeric(c) ==
  IF c.kind = "num" THEN c
  ELSE IF c.kind = "str" /\ IsNumericText(c.str) THEN Num(ParseNum[c.str])
  ELSE NaN

\* DataFrame.fillna(other): a missing cell takes the cell of other
fillna(t, other) ==
  [t EXCEPT !.rows = [i \in 1..NRows(t) |->
                        [k \in 1..NCols(t) |->
                           IF IsNa(t.rows[i][k]) THEN other.rows[i][k]
                           ELSE t.rows[i][k]]]]

\* DataFrame.replace(mapping) where mapping is a function on some cells
replace(t, mapping) ==
  MapCells(t, LAMBDA c : IF c \in DOMAIN mapping THEN mapping[c] ELSE c)

(***************************************************************************)
(* Source files: the text of the files read_data opens                     *)
(***************************************************************************)
\* lines of wdbc.data: id, diagnosis, one measurement
BreastLines == {<<"8", l, f>> : l \in {"B", "M", "?"}, f \in {"1", "?"}}

\* lines of allhyper.data and allhyper.test: sex, referral source, class
HyperLines ==
  { <<"F", "SVI", "negative.|1">>,
    <<"M", "?", "negative.|1">>,
    <<"?", "other", "goitre.|2">>,
    <<"F", "other", "T3 toxic.|3">>,
    <<"M", "SVI", "goitre.|2">>,
    <<"F", "SVI", "?">> }

CervicalHeader ==
  <<"Age", "Dx:Cancer", "Dx:CIN", "Dx:HPV", "Dx", "Hinselmann", "Schiller",
    "Citology", "Biopsy">>

\* lines of risk_factors_cervical_cancer.csv below the header
CervicalLines ==
  {<<a, "0", "0", "0", "0", "0", "0", "0", b>> :
      a \in {"1", "3", "?"}, b \in {"0", "1"}}

\* lines of the ILPD file: gender, one measurement, class
LiverLines ==
  {<<g, f, l>> : g \in {"Female", "Male"}, f \in {"3", ""}, l \in {"1", "2"}}

\* the files a call of read_data may find, as a sequence of file contents
SourceFiles(dataset_id) ==
  IF dataset_id = "breast_cancer"
    THEN {<<f>> : f \in SeqsOf(BreastLines, 1, MaxRows)}
  ELSE IF dataset_id = "hyperthyroidism"
    THEN UNION {{<<f, g>> : f \in [1..n -> HyperLines],
                             g \in SeqsOf(HyperLines, 1, MaxRows - n)} :
                  n \in 1..(MaxRows - 1)}
  ELSE IF dataset_id = "cervical_cancer"
    THEN {<<(<<CervicalHeader>> \o f)>> : f \in SeqsOf(CervicalLines, 1, MaxRows)}
  ELSE {<<f>> : f \in SeqsOf(LiverLines, 1, MaxRows)}

(***************************************************************************)
(* read_data                                                               *)
(***************************************************************************)
CervicalDropped ==
  {"Dx:Cancer", "Dx:CIN", "Dx:HPV", "Dx", "Hinselmann", "Schiller", "Citology"}

\* data[data.columns[-1]] = data[data.columns[-1]].str.split('.').str[0]
label_prefix(d) == MapCol(d, NCols(d), StrSplitFirst)

\* data.apply(pd.to_numeric, errors='coerce').fillna(data), then
\* data.replace('?', float('nan'), inplace=True)
coerce(loaded) ==
  replace(fillna(MapCells(loaded, to_numeric), loaded), [c \in {Str("?")} |-> NaN])

read_data(dataset_id, files) ==
  IF dataset_id = "breast_cancer" THEN coerce(read_csv(files[1], FALSE))
  ELSE IF dataset_id = "hyperthyroidism" THEN
    coerce(label_prefix(append(read_csv(files[1], FALSE),
                               read_csv(files[2], FALSE))))
  ELSE IF dataset_id = "cervical_cancer" THEN
    coerce(drop(read_csv(files[1], TRUE), CervicalDropped))
  ELSE coerce(read_csv(files[1], FALSE))

(***************************************************************************)
(* outcome_values                                                          *)
(***************************************************************************)
\* Series.value_counts().to_dict(): value_counts leaves missing values out
value_counts(vals) ==
  [v \in {c \in SeqToSet(vals) : ~IsNa(c)} |-> Count(vals, v)]

outcome_values(dataset_id, dataset) ==
  IF dataset_id = "breast_cancer"
    THEN value_counts(ColVals(dataset, ColPos(dataset, "1")))
    ELSE value_counts(ColVals(dataset, NCols(dataset)))

(***************************************************************************)
(* classify: feature / label extraction                                    *)
(***************************************************************************)
\* sort order of the referral-source categories (upper case sorts first)
CategoryOrder == <<"SVI", "other">>

\* pd.get_dummies(series): one 0/1 column per distinct non-missing value,
\* in sorted order; a missing value gets 0 in every column; index kept
get_dummies(t) ==
  LET vals == ColVals(t, 1)
      cats == Take(CategoryOrder,
                   SelectPos(CategoryOrder, LAMBDA c : Str(c) \in SeqToSet(vals)))
  IN [columns |-> cats,
      index |-> t.index,
      rows |-> [i \in 1..NRows(t) |->
                  [k \in 1..Len(cats) |->
                     IF vals[i] = Str(cats[k]) THEN Num(1) ELSE Num(0)]]]

\* the row of t whose index label is lab, all-missing when t has none
RowAt(t, lab) ==
  IF \E i \in 1..NRows(t) : t.index[i] = lab
    THEN t.rows[CHOOSE i \in 1..NRows(t) : t.index[i] = lab]
    ELSE [k \in 1..NCols(t) |-> NaN]

\* pd.concat(tables, axis=1): columns side by side, rows aligned on the
\* index label (outer join)
concat(tables) ==
  LET all == Flatten([k \in 1..Len(tables) |-> tables[k].index])
      first == SelectPos(all, LAMBDA lab : TRUE)
      idx == Take(all, SelectPos(first,
                LAMBDA p : \A q \in 1..(p - 1) : all[q] # all[p]))
  IN [columns |-> Flatten([k \in 1..Len(tables) |-> tables[k].columns]),
      index |-> idx,
      rows |-> [i \in 1..Len(idx) |->
                  Flatten([k \in 1..Len(tables) |-> RowAt(tables[k], idx[i])])]]

HyperMap ==
  [c \in {Str("F"), Str("M"), Str("f"), Str("t")} |->
     IF c \in {Str("F"), Str("f")} THEN Num(0) ELSE Num(1)]

LiverMap ==
  [c \in {Str("Female"), Str("Male")} |->
     IF c = Str("Female") THEN Num(0) ELSE Num(1)]

\* DataFrame.values.tolist()
tolist(t) == t.rows

\* X = t.iloc[:, :-1].values.tolist() and y = t.iloc[:, -1:].values.tolist()
\* (the one-column nested list, flattened as sklearn flattens it); dataset is
\* the caller's table object as the statements of the branch leave it
features_and_label(t, dataset) ==
  [X |-> tolist(iloc(t, 1, NCols(t) - 1)),
   y |-> ColVals(t, NCols(t)),
   dataset |-> dataset]

\* variant: the expanded table loses its incomplete rows before extraction
extract_hyperthyroidism_dropna(dataset) ==
  LET dropna(t) ==
        [columns |-> t.columns,
         index |-> Take(t.index, SelectPos(t.rows,
                     LAMBDA r : \A j \in 1..Len(r) : ~IsNa(r[j]))),
         rows |-> Take(t.rows, SelectPos(t.rows,
                     LAMBDA r : \A j \in 1..Len(r) : ~IsNa(r[j])))]
  IN features_and_label(
       dropna(replace(concat(<<iloc(dataset, 1, NCols(dataset) - 2),
                               get_dummies(iloc(dataset, NCols(dataset) - 1,
                                                NCols(dataset) - 1)),
                               iloc(dataset, NCols(dataset), NCols(dataset))>>),
                      HyperMap)),
       dataset)

\* new_dataset is a new table: concat copies, replace acts on the copy
extract_hyperthyroidism(dataset) ==
  features_and_label(
    replace(concat(<<iloc(dataset, 1, NCols(dataset) - 2),
                     get_dummies(iloc(dataset, NCols(dataset) - 1,
                                      NCols(dataset) - 1)),
                     iloc(dataset, NCols(dataset), NCols(dataset))>>),
            HyperMap),
    dataset)

\* variant: the gender mapping is done in place on the caller's table
extract_liver_cancer_inplace(dataset) ==
  features_and_label(replace(dataset, LiverMap), replace(dataset, LiverMap))

\* dataset.replace(...) returns a new table
extract_liver_cancer(dataset) ==
  features_and_label(replace(dataset, LiverMap), dataset)

\* dataset.drop(1, axis=1) returns a new table
extract_breast_cancer(dataset) ==
  [X |-> tolist(drop(dataset, {"1"})),
   y |-> ColVals(dataset, ColPos(dataset, "1")),
   dataset |-> dataset]

extract_default(dataset) == features_and_label(dataset, dataset)

extract(dataset_id, dataset) ==
  IF dataset_id = "hyperthyroidism" THEN extract_hyperthyroidism(dataset)
  ELSE IF dataset_id = "liver_cancer" THEN extract_liver_cancer(dataset)
  ELSE IF dataset_id = "breast_cancer" THEN extract_breast_cancer(dataset)
  ELSE extract_default(dataset)

(***************************************************************************)
(* classify: train/test split                                              *)
(***************************************************************************)
\* numpy RandomState(0).permutation(n), as 1-based row positions
Permutation ==
  <<  <<1>>,
      <<2, 1>>,
      <<3, 2, 1>>,
      <<3, 4, 2, 1>>,
      <<3, 1, 2, 4, 5>>,
      <<6, 3, 2, 4, 1, 5>>,
      <<7, 3, 2, 4, 1, 6, 5>> >>

\* variant: the train slice starts one entry early and overlaps the test slice
train_test_split_overlap(X, y) ==
  LET n == Len(X)
      n_test == (n + 4) \div 5
      n_train == n - n_test
      perm == Permutation[n]
      test == SubSeq(perm, 1, n_test)
      train == SubSeq(perm, n_test, n_test + n_train)
  IN IF n_train = 0
       THEN [raised |-> TRUE, train |-> <<>>, test |-> <<>>,
             X_train |-> <<>>, X_test |-> <<>>, y_train |-> <<>>, y_test |-> <<>>]
       ELSE [raised |-> FALSE, train |-> train, test |-> test,
             X_train |-> Take(X, train), X_test |-> Take(X, test),
             y_train |-> Take(y, train), y_test |-> Take(y, test)]

\* train_test_split(X, y, test_size=0.2, random_state=0):
\* n_test = ceil(0.2 * n), n_train = n - n_test, ValueError when n_train = 0;
\* test rows are the first n_test entries of the permutation, train rows
\* the following n_train entries
train_test_split(X, y) ==
  LET n == Len(X)
      n_test == (n + 4) \div 5
      n_train == n - n_test
      perm == Permutation[n]
      test == SubSeq(perm, 1, n_test)
      train == SubSeq(perm, n_test + 1, n_test + n_train)
  IN IF n_train = 0
       THEN [raised |-> TRUE, train |-> <<>>, test |-> <<>>,
             X_train |-> <<>>, X_test |-> <<>>, y_train |-> <<>>, y_test |-> <<>>]
       ELSE [raised |-> FALSE, train |-> train, test |-> test,
             X_train |-> Take(X, train), X_test |-> Take(X, test),
             y_train |-> Take(y, train), y_test |-> Take(y, test)]

(***************************************************************************)
(* classify: imputation                                                    *)
(***************************************************************************)
NoStat == <<0, 0>>

\* SimpleImputer(strategy='mean').fit(rows): per column the mean of the
\* cells that are not missing, NoStat for a column with no such cell
imputer_fit(rows) ==
  [j \in 1..Len(rows[1]) |->
     LET present == SelectPos(rows, LAMBDA r : ~IsNa(r[j]))
     IN IF present = <<>> THEN NoStat
        ELSE Frac(SumSeq([k \in 1..Len(present) |-> rows[present[k]][j].num]),
                  Len(present))]

\* imputer.transform(rows): a column without statistic is dropped, a missing
\* cell of another column takes the statistic
imputer_transform(statistics, rows) ==
  LET keep == SelectPos([j \in 1..Len(statistics) |-> j],
                        LAMBDA j : statistics[j] # NoStat)
  IN [i \in 1..Len(rows) |->
        [k \in 1..Len(keep) |->
           IF IsNa(rows[i][keep[k]]) THEN statistics[keep[k]]
           ELSE Frac(rows[i][keep[k]].num, 1)]]

\* a cell the imputer cannot convert to float
NonNumeric(rows) ==
  \E i \in 1..Len(rows) : \E j \in 1..Len(rows[i]) : rows[i][j].kind = "str"

\* variant: the imputer is fitted on the train and the test rows together
impute_all_rows(s) ==
  IF NonNumeric(s.X_train) \/ NonNumeric(s.X_test)
    THEN [raised |-> TRUE, statistics |-> <<>>, X_train |-> <<>>, X_test |-> <<>>]
    ELSE LET statistics == imputer_fit(s.X_train \o s.X_test)
         IN [raised |-> FALSE,
             statistics |-> statistics,
             X_train |-> imputer_transform(statistics, s.X_train),
             X_test |-> imputer_transform(statistics, s.X_test)]

\* the imputation statements of classify applied to a split s
impute(s) ==
  IF NonNumeric(s.X_train) \/ NonNumeric(s.X_test)
    THEN [raised |-> TRUE, statistics |-> <<>>, X_train |-> <<>>, X_test |-> <<>>]
    ELSE LET statistics == imputer_fit(s.X_train)
         IN [raised |-> FALSE,
             statistics |-> statistics,
             X_train |-> imputer_transform(statistics, s.X_train),
             X_test |-> imputer_transform(statistics, s.X_test)]

(***************************************************************************)
(* classify: the whole function up to the call of model.fit                *)
(***************************************************************************)
NoCls ==
  [ran |-> FALSE, raised |-> FALSE, split |-> FALSE, imputed |-> FALSE,
   X |-> <<>>, y |-> <<>>,
   train |-> <<>>, test |-> <<>>, X_train_in |-> <<>>, X_test_in |-> <<>>,
   statistics |-> <<>>, X_train |-> <<>>, X_test |-> <<>>,
   y_train |-> <<>>, y_test |-> <<>>]

\* numpy's conversion of a list of labels to an array, as sklearn does it to
\* y_train, gold and the predictions: in a list that holds a text every
\* element becomes text, the missing marker the text 'nan'; a list of
\* numbers keeps the missing marker.  (A label column holds texts or
\* numbers, not both.)
asarray(y) ==
  IF \E i \in 1..Len(y) : y[i].kind = "str"
    THEN [i \in 1..Len(y) |-> IF IsNa(y[i]) THEN Str("nan") ELSE y[i]]
    ELSE y

\* model.fit(X_train, y_train) rejects a label array that holds the missing
\* marker
fit_raises(y_train) == \E i \in 1..Len(y_train) : IsNa(asarray(y_train)[i])

\* the locals of classify after the imputation m of the split s of the
\* extraction e
classify_imputed(e, s, m) ==
  [ran |-> TRUE, raised |-> m.raised \/ fit_raises(s.y_train),
   split |-> TRUE, imputed |-> ~m.raised,
   X |-> e.X, y |-> e.y, train |-> s.train, test |-> s.test,
   X_train_in |-> s.X_train, X_test_in |-> s.X_test,
   statistics |-> m.statistics, X_train |-> m.X_train, X_test |-> m.X_test,
   y_train |-> s.y_train, y_test |-> s.y_test]

\* the locals of classify after the split s of the extraction e
classify_split(e, s) ==
  IF s.raised
    THEN [NoCls EXCEPT !.ran = TRUE, !.raised = TRUE, !.X = e.X, !.y = e.y]
    ELSE classify_imputed(e, s, impute(s))

\* the locals of classify when it reaches model.predict, or where it
\* raised, from the extraction e on
classify_locals(e) == classify_split(e, train_test_split(e.X, e.y))

\* model.predict(X_test).tolist(): the classifier is a library object; it
\* answers one of the classes it was fitted on for every test row.  What
\* the four library classifiers ask of the size of the training set (three
\* neighbours, two classes) is not modelled: the files of a few lines stand
\* for the datasets of several hundred rows.
predict_choices(c) == [1..Len(c.X_test) -> SeqToSet(asarray(c.y_train))]

(***************************************************************************)
(* evaluate                                                                *)
(***************************************************************************)
\* sklearn unique_labels(gold, predictions)
unique_labels(gold, predictions) == SeqToSet(gold) \cup SeqToSet(predictions)

\* accuracy_score(gold, predictions)
accuracy_score(gold, predictions) ==
  Frac(Cardinality({i \in 1..Len(gold) : gold[i] = predictions[i]}), Len(gold))

\* sklearn divides with zero_division -> 0
Div0(n, d) == IF d = 0 THEN <<0, 1>> ELSE Frac(n, d)

TruePos(gold, predictions, l) ==
  Cardinality({i \in 1..Len(gold) : gold[i] = l /\ predictions[i] = l})

precision_of(gold, predictions, l) ==
  Div0(TruePos(gold, predictions, l), Count(predictions, l))

recall_of(gold, predictions, l) ==
  Div0(TruePos(gold, predictions, l), Count(gold, l))

f1_of(gold, predictions, l) ==
  Div0(2 * TruePos(gold, predictions, l), Count(predictions, l) + Count(gold, l))

\* variant: an absent pos_label always raises
binary_raises_absent(gold, predictions, pos_label) ==
  LET present == unique_labels(gold, predictions)
  IN \/ Cardinality(present) > 2
     \/ pos_label \notin present

\* precision_score / recall_score / f1_score (average='binary') raise
\* ValueError when the targets hold more than two values, or hold two values
\* and pos_label is neither of them
binary_raises(gold, predictions, pos_label) ==
  LET present == unique_labels(gold, predictions)
  IN \/ Cardinality(present) > 2
     \/ pos_label \notin present /\ Cardinality(present) >= 2

FracAdd(a, b) == Frac(a[1] * b[2] + b[1] * a[2], a[2] * b[2])

RECURSIVE FracSum(_)
FracSum(fs) == IF fs = <<>> THEN <<0, 1>> ELSE FracAdd(Head(fs), FracSum(Tail(fs)))

\* the values of set S as a sequence, in some order
RECURSIVE SetToSeq(_)
SetToSeq(S) ==
  IF S = {} THEN <<>>
  ELSE LET x == CHOOSE x \in S : TRUE IN <<x>> \o SetToSeq(S \ {x})

\* average='macro': the unweighted mean of score over the labels that occur
\* in gold or predictions
macro(score(_, _, _), gold, predictions) ==
  LET present == SetToSeq(unique_labels(gold, predictions))
      total == FracSum([k \in 1..Len(present) |->
                          score(gold, predictions, present[k])])
  IN Frac(total[1], total[2] * Len(present))

\* variant: no rounding
round2_none(x) == x

\* round(x, 2), ties to even
round2(x) ==
  LET q == (100 * x[1]) \div x[2]
      r == (100 * x[1]) % x[2]
      h == IF 2 * r > x[2] THEN q + 1
           ELSE IF 2 * r < x[2] THEN q
           ELSE IF q % 2 = 0 THEN q ELSE q + 1
  IN Frac(h, 100)

\* the try block of evaluate
binary_scores(gold, predictions, l) ==
  [precision |-> round2(precision_of(gold, predictions, l)),
   recall |-> round2(recall_of(gold, predictions, l)),
   f1 |-> round2(f1_of(gold, predictions, l))]

\* the except block of evaluate
macro_scores(gold, predictions, l) ==
  [precision |-> round2(macro(precision_of, gold, predictions)),
   recall |-> round2(macro(recall_of, gold, predictions)),
   f1 |-> round2(macro(f1_of, gold, predictions))]

NoEvaluation == [raised |-> FALSE, accuracy |-> <<0, 1>>, scores |-> <<>>]

\* evaluate on the label arrays sklearn makes of its arguments;
\* accuracy_score rejects a gold array that holds the missing marker, and it
\* is called outside the try block
evaluate_arrays(labels_, gold, predictions) ==
  IF \E i \in 1..Len(gold) : IsNa(gold[i])
    THEN [NoEvaluation EXCEPT !.raised = TRUE]
    ELSE [raised |-> FALSE,
          accuracy |-> accuracy_score(gold, predictions),
          scores |-> [l \in DOMAIN labels_ |->
                        IF binary_raises(gold, predictions, l)
                          THEN macro_scores(gold, predictions, l)
                          ELSE binary_scores(gold, predictions, l)]]

evaluate(labels_, gold, predictions) ==
  evaluate_arrays(labels_, asarray(gold), asarray(predictions))

(***************************************************************************)
(* The driver                                                              *)
(***************************************************************************)
datasets == <<"breast_cancer", "hyperthyroidism", "cervical_cancer", "liver_cancer">>

\* variant: the dict lists K-NN first
classifiers_reordered ==
  << [name |-> "K-NN", instance |-> 2],
     [name |-> "Decision-Tree", instance |-> 1],
     [name |-> "Naive-Bayes", instance |-> 3],
     [name |-> "SVM", instance |-> 4] >>

\* the dict classifiers: each entry holds one classifier object, made when
\* the cell defining the dict runs
classifiers ==
  << [name |-> "Decision-Tree", instance |-> 1],
     [name |-> "K-NN", instance |-> 2],
     [name |-> "Naive-Bayes", instance |-> 3],
     [name |-> "SVM", instance |-> 4] >>

NoTable == [columns |-> <<>>, index |-> <<>>, rows |-> <<>>]
NoRes == [pred |-> <<>>, actual |-> <<>>]

Event(op, d, c) == [op |-> op, dataset |-> d, classifier |-> c]

Init ==
  /\ pc = "read_data"
  /\ di = 1
  /\ ci = 1
  /\ data = NoTable
  /\ labels = <<>>
  /\ cls = NoCls
  /\ res = NoRes
  /\ evaluation = NoEvaluation
  /\ fits = [i \in 1..Len(classifiers) |-> <<>>]
  /\ trace = <<>>
  /\ log = <<>>

\* data = read_data(dataset_id)
ReadData ==
  /\ pc = "read_data"
  /\ \E files \in SourceFiles(datasets[di]) :
       data' = read_data(datasets[di], files)
  /\ pc' = "outcome_values"
  /\ trace' = Append(trace, Event("read_data", datasets[di], ""))
  /\ UNCHANGED <<di, ci, labels, cls, res, evaluation, fits, log>>

\* labels = outcome_values(dataset_id, data), then the inner loop starts
OutcomeValues ==
  /\ pc = "outcome_values"
  /\ labels' = outcome_values(datasets[di], data)
  /\ ci' = 1
  /\ pc' = "classify"
  /\ trace' = Append(trace, Event("outcome_values", datasets[di], ""))
  /\ UNCHANGED <<di, data, cls, res, evaluation, fits, log>>

\* the loop has bound model to the current object of classifiers;
\* res = classify(dataset_id, data) fits and queries that object
Classify ==
  /\ pc = "classify"
  /\ \E e \in {extract(datasets[di], data)} :
       \E c \in {classify_locals(e)} :
         /\ data' = e.dataset
         /\ cls' = c
         /\ IF c.raised
              THEN /\ pc' = "failed"
                   /\ UNCHANGED <<res, fits>>
              ELSE /\ fits' = [fits EXCEPT ![classifiers[ci].instance] =
                                              Append(@, datasets[di])]
                   /\ \E p \in predict_choices(c) :
                        res' = [pred |-> p, actual |-> c.y_test]
                   /\ pc' = "evaluate"
  /\ trace' = Append(trace, Event("classify", datasets[di], classifiers[ci].name))
  /\ UNCHANGED <<di, ci, labels, evaluation, log>>

\* print(_ + ' ' + str(evaluate(labels, actual, pred)))
Evaluate ==
  /\ pc = "evaluate"
  /\ \E r \in {evaluate(labels, res.actual, res.pred)} :
       /\ evaluation' = r
       /\ IF r.raised
            THEN /\ pc' = "failed"
                 /\ log' = log
            ELSE /\ pc' = "for"
                 /\ log' = Append(log, [dataset |-> datasets[di],
                                        classifier |-> classifiers[ci].name])
  /\ trace' = Append(trace, Event("evaluate", datasets[di], classifiers[ci].name))
  /\ UNCHANGED <<di, ci, data, labels, cls, res, fits>>

\* control returns to the for statements: the next classifier, else the
\* next dataset, else the end of the cell.  The mapping evaluate returned and
\* the locals of classify are gone once printed; when the outer loop
\* advances, the names data, labels and res still hold the finished
\* dataset's objects, which are never read again (read_data, outcome_values
\* and classify rebind them first), so they are cleared here.
ForNext ==
  /\ pc = "for"
  /\ IF ci < Len(classifiers)
       THEN /\ ci' = ci + 1
            /\ pc' = "classify"
            /\ evaluation' = NoEvaluation
            /\ cls' = NoCls
            /\ UNCHANGED <<di, data, labels, res>>
       ELSE IF di < Len(datasets)
         THEN /\ di' = di + 1
              /\ ci' = 1
              /\ pc' = "read_data"
              /\ evaluation' = NoEvaluation
              /\ cls' = NoCls
              /\ data' = NoTable
              /\ labels' = <<>>
              /\ res' = NoRes
         ELSE /\ pc' = "done"
              /\ UNCHANGED <<di, ci, data, labels, cls, res, evaluation>>
  /\ UNCHANGED <<fits, trace, log>>

Next == ReadData \/ OutcomeValues \/ Classify \/ Evaluate \/ ForNext

Spec == Init /\ [][Next]_vars

(***************************************************************************)
(* evaluate on its own: the inputs are drawn from bounded sets and the     *)
(* driver's evaluate step applies the function                             *)
(***************************************************************************)
EvalLabels == {Str("negative"), Str("goitre"), Str("T3 toxic")}

\* labels holds the distribution of a dataset whose test split is gold and
\* whose train split holds every class once; gold holds no missing label
InitEvaluate ==
  /\ pc = "evaluate"
  /\ di = 2
  /\ ci = 1
  /\ data = NoTable
  /\ cls = NoCls
  /\ evaluation = NoEvaluation
  /\ fits = [i \in 1..Len(classifiers) |-> <<>>]
  /\ trace = <<>>
  /\ log = <<>>
  /\ \E K \in (SUBSET EvalLabels) \ {{}} :
       \E n \in 1..MaxEval :
         \E g \in [1..n -> K], p \in [1..n -> K] :
           /\ labels = [l \in K |-> Count(g, l) + 1]
           /\ res = [pred |-> p, actual |-> g]

NextEvaluate == Evaluate

SpecEvaluate == InitEvaluate /\ [][NextEvaluate]_vars

(***************************************************************************)
(* Properties                                                              *)
(***************************************************************************)
\* evaluate has just returned normally
Evaluated == pc = "for" /\ ~evaluation.raised

\* C1: no classifier object is fitted in more than one (dataset, classifier)
\* run of the driver: every run fits an object no earlier run has fitted
C1_FreshInstancePerRun == \A i \in DOMAIN fits : Len(fits[i]) <= 1

\* the feature matrices that differ from X at most in the rows of the test
\* split, which hold any numeric or missing cells
C2_Cells == {Num(0), Num(3), NaN}

C2_TestAlternatives(c) ==
  {[i \in 1..Len(c.X) |-> IF i \in SeqToSet(c.test) THEN alt[i] ELSE c.X[i]] :
     alt \in [SeqToSet(c.test) -> [1..Len(c.X[1]) -> C2_Cells]]}

C2_Kept(c) ==
  SelectPos([j \in 1..Len(c.statistics) |-> j], LAMBDA j : c.statistics[j] # NoStat)

\* C2: the fill values of the imputer do not depend on the feature values
\* of the test rows, and every missing cell of the train and of the test
\* matrix is filled with the fitted value of its column
C2_ImputerFitOnTrainOnly ==
  cls.imputed =>
    /\ pc = "evaluate" =>
         \A X2 \in C2_TestAlternatives(cls) :
           classify_locals([X |-> X2, y |-> cls.y]).statistics = cls.statistics
    /\ \A k \in 1..Len(C2_Kept(cls)) :
         /\ \A i \in 1..Len(cls.X_train_in) :
              IsNa(cls.X_train_in[i][C2_Kept(cls)[k]])
                => cls.X_train[i][k] = cls.statistics[C2_Kept(cls)[k]]
         /\ \A i \in 1..Len(cls.X_test_in) :
              IsNa(cls.X_test_in[i][C2_Kept(cls)[k]])
                => cls.X_test[i][k] = cls.statistics[C2_Kept(cls)[k]]

\* a test row and a train row have a missing cell in a column whose mean
\* the other train rows fix
C2_Witness ==
  /\ cls.imputed
  /\ \E j \in 1..Len(cls.statistics) :
       /\ cls.statistics[j] # NoStat
       /\ \E i \in 1..Len(cls.X_test_in) : IsNa(cls.X_test_in[i][j])
       /\ \E i \in 1..Len(cls.X_train_in) : IsNa(cls.X_train_in[i][j])

\* C3: the split is a partition of the extracted rows: every row position
\* is in exactly one of train and test, and each part holds the rows and
\* the paired labels of its positions
C3_SplitIsPartition ==
  cls.split =>
    /\ Len(cls.train) + Len(cls.test) = Len(cls.X)
    /\ Len(cls.X_train_in) + Len(cls.X_test_in) = Len(cls.X)
    /\ SeqToSet(cls.train) \cup SeqToSet(cls.test) = 1..Len(cls.X)
    /\ SeqToSet(cls.train) \cap SeqToSet(cls.test) = {}
    /\ Cardinality(SeqToSet(cls.train)) = Len(cls.train)
    /\ Cardinality(SeqToSet(cls.test)) = Len(cls.test)
    /\ \A k \in 1..Len(cls.train) :
         cls.X_train_in[k] = cls.X[cls.train[k]] /\ cls.y_train[k] = cls.y[cls.train[k]]
    /\ \A k \in 1..Len(cls.test) :
         cls.X_test_in[k] = cls.X[cls.test[k]] /\ cls.y_test[k] = cls.y[cls.test[k]]

C3_Witness == cls.split /\ Len(cls.train) >= 2 /\ Len(cls.test) >= 1

C4_Datasets == <<"breast_cancer", "hyperthyroidism", "cervical_cancer", "liver_cancer">>

C4_Classifiers == <<"Decision-Tree", "K-NN", "Naive-Bayes", "SVM">>

C4_DatasetCalls(d) ==
  <<Event("read_data", d, ""), Event("outcome_values", d, "")>>
    \o Flatten([k \in 1..4 |-> <<Event("classify", d, C4_Classifiers[k]),
                                 Event("evaluate", d, C4_Classifiers[k])>>])

C4_Calls == Flatten([i \in 1..4 |-> C4_DatasetCalls(C4_Datasets[i])])

C4_Records ==
  Flatten([i \in 1..4 |->
             [k \in 1..4 |-> [dataset |-> C4_Datasets[i],
                              classifier |-> C4_Classifiers[k]]]])

C4_IsPrefix(a, b) == Len(a) <= Len(b) /\ a = SubSeq(b, 1, Len(a))

\* C4: the calls the driver makes are, in order, for each dataset in the
\* fixed order one read_data, one outcome_values, then classify and evaluate
\* for each classifier in the fixed order; the records printed are those of
\* the (dataset, classifier) pairs in that order, 16 when the cell ends
C4_DriverOrder ==
  /\ C4_IsPrefix(trace, C4_Calls)
  /\ C4_IsPrefix(log, C4_Records)
  /\ pc = "done" => trace = C4_Calls /\ log = C4_Records /\ Len(log) = 16

C4_Witness == pc = "done" /\ Len(log) = 16

\* C5: the metric policy follows the number of values of the label
\* distribution: two values give each label its own positive-class scores,
\* more than two give every label the macro-averaged scores
C5_PolicyFromDistribution ==
  Evaluated =>
    \A l \in DOMAIN labels :
      /\ Cardinality(DOMAIN labels) = 2
           => evaluation.scores[l] = binary_scores(res.actual, res.pred, l)
      /\ Cardinality(DOMAIN labels) > 2
           => evaluation.scores[l] = macro_scores(res.actual, res.pred, l)

C6_Absent(l) == l \notin SeqToSet(res.actual) \cup SeqToSet(res.pred)

C6_Zero == [precision |-> <<0, 1>>, recall |-> <<0, 1>>, f1 |-> <<0, 1>>]

\* C6: when the distribution has two labels, evaluate returns normally and
\* a label that occurs neither in gold nor in the predictions has precision,
\* recall and F1 equal to 0
C6_AbsentLabelScoresZero ==
  (pc \in {"for", "failed"} /\ Cardinality(DOMAIN labels) = 2)
    => /\ pc = "for"
       /\ ~evaluation.raised
       /\ \A l \in DOMAIN labels : C6_Absent(l) => evaluation.scores[l] = C6_Zero

C6_Witness ==
  /\ Evaluated
  /\ Cardinality(DOMAIN labels) = 2
  /\ \E l \in DOMAIN labels : C6_Absent(l) /\ evaluation.scores[l] = C6_Zero
  /\ Len(res.actual) >= 2

\* the float x has at most 2 decimal places
C7_TwoDecimals(x) == (100 * x[1]) % x[2] = 0

C7_ScoresRounded ==
  \A l \in DOMAIN labels :
    /\ C7_TwoDecimals(evaluation.scores[l].precision)
    /\ C7_TwoDecimals(evaluation.scores[l].recall)
    /\ C7_TwoDecimals(evaluation.scores[l].f1)

\* C7 as stated: the accuracy and every label's precision, recall and F1
\* are rounded to 2 decimal places
C7_AllRounded ==
  Evaluated => C7_TwoDecimals(evaluation.accuracy) /\ C7_ScoresRounded

\* C7, amended: every label's precision, recall and F1 are rounded to 2
\* decimal places; the accuracy is the exact fraction of positions where
\* the prediction equals gold, not rounded
C7_LabelScoresRounded ==
  Evaluated =>
    /\ C7_ScoresRounded
    /\ evaluation.accuracy =
         Frac(Cardinality({i \in 1..Len(res.actual) : res.actual[i] = res.pred[i]}),
              Len(res.actual))

\* a label's precision has more than 2 decimal places before rounding, and
\* so has the accuracy
C7_Witness ==
  /\ Evaluated
  /\ ~C7_TwoDecimals(evaluation.accuracy)
  /\ \E l \in DOMAIN labels :
       /\ ~binary_raises(res.actual, res.pred, l)
       /\ ~C7_TwoDecimals(precision_of(res.actual, res.pred, l))

C8_LabelColumn ==
  IF datasets[di] = "breast_cancer" THEN ColPos(data, "1") ELSE NCols(data)

\* C8: the counts outcome_values returns are the occurrence counts of the
\* label column over all rows, a missing label counted under the missing
\* marker, so that the counts sum to the number of rows
C8_CountsCoverAllRows ==
  pc \in {"classify", "evaluate", "for", "failed", "done"} =>
    /\ SumSeq([k \in 1..Cardinality(DOMAIN labels) |->
                 labels[SetToSeq(DOMAIN labels)[k]]]) = NRows(data)
    /\ \A i \in 1..NRows(data) :
         /\ data.rows[i][C8_LabelColumn] \in DOMAIN labels
         /\ labels[data.rows[i][C8_LabelColumn]]
              = Count(ColVals(data, C8_LabelColumn), data.rows[i][C8_LabelColumn])

\* the cell of X or y a feature or label cell of the table is extracted to
C9_Encoded(c) ==
  IF datasets[di] = "hyperthyroidism" /\ c \in DOMAIN HyperMap THEN HyperMap[c]
  ELSE IF datasets[di] = "liver_cancer" /\ c \in DOMAIN LiverMap THEN LiverMap[c]
  ELSE c

\* the categories of the expanded column of hyperthyroidism, sorted
C9_Categories ==
  Take(CategoryOrder,
       SelectPos(CategoryOrder,
                 LAMBDA c : Str(c) \in SeqToSet(ColVals(data, NCols(data) - 1))))

\* row i of X holds the feature cells of row i of the table, in order
C9_RowOfX(i) ==
  LET row == data.rows[i]
      m == Len(row)
  IN IF datasets[di] = "breast_cancer"
       THEN cls.X[i] = <<row[1]>> \o SubSeq(row, 3, m)
     ELSE IF datasets[di] = "hyperthyroidism"
       THEN cls.X[i] =
              [j \in 1..(m - 2) |-> C9_Encoded(row[j])]
                \o [k \in 1..Len(C9_Categories) |->
                      IF row[m - 1] = Str(C9_Categories[k]) THEN Num(1) ELSE Num(0)]
     ELSE cls.X[i] = [j \in 1..(m - 1) |-> C9_Encoded(row[j])]

\* C9: X and y have as many rows as the dataset, and row i of X and entry i
\* of y come from row i of the dataset
C9_RowsPairedInOrder ==
  cls.ran =>
    /\ Len(cls.X) = NRows(data)
    /\ Len(cls.y) = NRows(data)
    /\ \A i \in 1..NRows(data) :
         /\ i <= Len(cls.X) /\ C9_RowOfX(i)
         /\ i <= Len(cls.y) /\ cls.y[i] = C9_Encoded(data.rows[i][C8_LabelColumn])

\* hyperthyroidism rows with distinct features, one of them without category
C9_Witness ==
  /\ cls.ran
  /\ datasets[di] = "hyperthyroidism"
  /\ NRows(data) >= 3
  /\ \E i \in 1..NRows(data) : IsNa(data.rows[i][NCols(data) - 1])
  /\ Len(C9_Categories) = 2
  /\ \E i, j \in 1..NRows(data) : cls.y[i] # cls.y[j]

\* C10: outcome_values and classify leave the loaded table as it is
C10_DatasetReadOnly ==
  [][(pc \in {"outcome_values", "classify"}) => (data' = data)]_vars

\* classify has run on a liver table that holds a gender text
C10_Witness ==
  /\ cls.ran
  /\ pc = "evaluate"
  /\ datasets[di] = "liver_cancer"
  /\ \E i \in 1..NRows(data) : data.rows[i][1] = Str("Female")

====
